---- MODULE Spec2Model ----
(***************************************************************************)
(* Model of the agentcore scripts:                                         *)
(*   - invoke_agent.py: the __main__ workflow (get_agent_runtimes, then    *)
(*     invoke_agent_runtime) and the decoding of the response by its       *)
(*     declared contentType;                                               *)
(*   - deploy_to_agentcore.py: wait_for_status.                            *)
(*                                                                         *)
(* Representation of Python values:                                        *)
(*   bytes : a sequence of integers 0..255                                 *)
(*   str   : a sequence of Unicode code points (integers)                  *)
(*   JSON  : a tagged record, [t |-> "null"], [t |-> "bool", v |-> b],     *)
(*           [t |-> "num", v |-> n], [t |-> "str", v |-> str],             *)
(*           [t |-> "list", v |-> seq], [t |-> "dict", v |-> function]     *)
(* HTTP header values (contentType) never pass through a codec and are     *)
(* kept as TLA+ strings.                                                   *)
(***************************************************************************)
EXTENDS Integers, Sequences, FiniteSets, TLC

(***************************************************************************)
(* Bounds of the model.                                                    *)
(***************************************************************************)
\* most lines an event-stream body carries
MaxLines == 2
\* most chunks a JSON body is split into
MaxChunks == 3
\* most runtimes the directory listing returns
MaxRuntimes == 2
\* most status fetches wait_for_status is followed for
MaxFetches == 4

(***************************************************************************)
(* Characters and UTF-8.                                                   *)
(***************************************************************************)
\* the printable ASCII characters, code points 32..95 and 97..126 in order
AsciiLow == " !\"#$%&'()*+,-./0123456789:;<=>?@ABCDEFGHIJKLMNOPQRSTUVWXYZ[\\]^_"
AsciiHigh == "abcdefghijklmnopqrstuvwxyz{|}~"

\* code point of a one-character string
Ord(c) ==
  IF \E i \in 1..Len(AsciiLow) : SubSeq(AsciiLow, i, i) = c
  THEN 31 + (CHOOSE i \in 1..Len(AsciiLow) : SubSeq(AsciiLow, i, i) = c)
  ELSE 96 + (CHOOSE i \in 1..Len(AsciiHigh) : SubSeq(AsciiHigh, i, i) = c)

\* a Python str literal as a sequence of code points
Str(s) == [i \in 1..Len(s) |-> Ord(SubSeq(s, i, i))]

\* the UTF-8 bytes of one code point below 0x10000
EncodeChar(c) ==
  IF c < 128 THEN <<c>>
  ELSE IF c < 2048 THEN <<192 + (c \div 64), 128 + (c % 64)>>
  ELSE <<224 + (c \div 4096), 128 + ((c \div 64) % 64), 128 + (c % 64)>>

\* str.encode("utf-8"), the string taken by halves
RECURSIVE Utf8Encode(_)
Utf8Encode(s) ==
  IF Len(s) = 0 THEN <<>>
  ELSE IF Len(s) = 1 THEN EncodeChar(s[1])
  ELSE LET h == Len(s) \div 2
       IN  Utf8Encode(SubSeq(s, 1, h)) \o Utf8Encode(SubSeq(s, h + 1, Len(s)))

\* a continuation byte 10xxxxxx
IsCont(b) == b >= 128 /\ b <= 191

Utf8Fail == [ok |-> FALSE]

\* the code point of the one character that is exactly the bytes c, strictly
\* (no overlong form, no surrogate, at most U+10FFFF), or -1
DecodeChar(c) ==
  LET b0 == c[1]
      n  == Len(c)
  IN  IF n = 1 THEN (IF b0 < 128 THEN b0 ELSE -1)
      ELSE IF \E k \in 2..n : ~IsCont(c[k]) THEN -1
      ELSE IF n = 2 THEN
        IF b0 >= 194 /\ b0 <= 223 THEN (b0 - 192) * 64 + (c[2] - 128) ELSE -1
      ELSE IF n = 3 THEN
        IF /\ b0 >= 224 /\ b0 <= 239
           /\ (b0 = 224 => c[2] >= 160)
           /\ (b0 = 237 => c[2] <= 159)
        THEN (b0 - 224) * 4096 + (c[2] - 128) * 64 + (c[3] - 128)
        ELSE -1
      ELSE IF n = 4 THEN
        IF /\ b0 >= 240 /\ b0 <= 244
           /\ (b0 = 240 => c[2] >= 144)
           /\ (b0 = 244 => c[2] <= 143)
        THEN (b0 - 240) * 262144 + (c[2] - 128) * 4096 + (c[3] - 128) * 64
             + (c[4] - 128)
        ELSE -1
      ELSE -1

\* two decoded halves put together
Utf8Both(l, r) ==
  IF l.ok /\ r.ok THEN [ok |-> TRUE, s |-> l.s \o r.s] ELSE Utf8Fail

\* the first of the candidate cut positions
Utf8Cut(near) == CHOOSE i \in near : \A j \in near : i <= j

\* bytes.decode("utf-8"), strict: [ok |-> TRUE, s |-> str], or [ok |-> FALSE]
\* where Python raises UnicodeDecodeError.  A character starts at every byte
\* that is not a continuation byte, so the bytes are cut at such a byte near
\* the middle and the halves decoded on their own; when there is none near
\* the middle, the bytes are one character or hold four continuation bytes
\* in a row.
RECURSIVE Utf8Decode(_)
Utf8Decode(b) ==
  IF Len(b) = 0 THEN [ok |-> TRUE, s |-> <<>>]
  ELSE IF IsCont(b[1]) THEN Utf8Fail
  ELSE LET h    == Len(b) \div 2
           near == {i \in (h - 1)..(h + 4) : i >= 2 /\ i <= Len(b) /\ ~IsCont(b[i])}
       IN  IF near = {}
           THEN LET c == IF Len(b) <= 4 THEN DecodeChar(b) ELSE -1
                IN  IF c = -1 THEN Utf8Fail ELSE [ok |-> TRUE, s |-> <<c>>]
           ELSE Utf8Both(Utf8Decode(SubSeq(b, 1, Utf8Cut(near) - 1)),
                         Utf8Decode(SubSeq(b, Utf8Cut(near), Len(b))))

(***************************************************************************)
(* JSON values and json.loads (the subset used here: objects, arrays,     *)
(* strings with the one-character escapes, integers, true/false/null).     *)
(***************************************************************************)
JNull == [t |-> "null"]
JBool(b) == [t |-> "bool", v |-> b]
JNum(n) == [t |-> "num", v |-> n]
JStr(s) == [t |-> "str", v |-> s]
JList(l) == [t |-> "list", v |-> l]
JDict(f) == [t |-> "dict", v |-> f]

\* d[k] = v on a dict held as a function from keys to values
DictSet(f, k, v) == [y \in (DOMAIN f) \cup {k} |-> IF y = k THEN v ELSE f[y]]

ChLBrace == Ord("{")
ChRBrace == Ord("}")
ChLBracket == Ord("[")
ChRBracket == Ord("]")
ChQuote == Ord("\"")
ChBackslash == Ord("\\")
ChColon == Ord(":")
ChComma == Ord(",")
ChMinus == Ord("-")
ChZero == Ord("0")
ChNine == Ord("9")
LitTrue == Str("true")
LitFalse == Str("false")
LitNull == Str("null")

JFail == [ok |-> FALSE]

\* the character at i, or -1 past the end
At(s, i) == IF i >= 1 /\ i <= Len(s) THEN s[i] ELSE -1

StartsAt(s, i, lit) ==
  /\ i + Len(lit) - 1 <= Len(s)
  /\ SubSeq(s, i, i + Len(lit) - 1) = lit

\* JSON whitespace: space, \t, \n, \r
IsWs(c) == c \in {32, 9, 10, 13}

RECURSIVE SkipWs(_, _)
SkipWs(s, i) == IF IsWs(At(s, i)) THEN SkipWs(s, i + 1) ELSE i

IsDigit(c) == c >= ChZero /\ c <= ChNine

RECURSIVE ScanDigits(_, _, _)
ScanDigits(s, i, acc) ==
  IF IsDigit(At(s, i)) THEN ScanDigits(s, i + 1, acc * 10 + (s[i] - ChZero))
  ELSE [val |-> acc, pos |-> i]

\* an integer starting at i: -?(0|[1-9][0-9]*)
ParseNumber(s, i) ==
  LET neg == At(s, i) = ChMinus
      j   == IF neg THEN i + 1 ELSE i
  IN  IF ~IsDigit(At(s, j)) THEN JFail
      ELSE IF s[j] = ChZero THEN [ok |-> TRUE, val |-> JNum(0), pos |-> j + 1]
      ELSE LET d == ScanDigits(s, j, 0)
           IN  [ok |-> TRUE, val |-> JNum(IF neg THEN 0 - d.val ELSE d.val),
                pos |-> d.pos]

\* the one-character escapes of a JSON string: \" \\ \/ \b \f \n \r \t
Escapes ==
  [c \in {ChQuote, ChBackslash, Ord("/"), Ord("b"), Ord("f"), Ord("n"), Ord("r"), Ord("t")} |->
     CASE c = Ord("b") -> 8
       [] c = Ord("f") -> 12
       [] c = Ord("n") -> 10
       [] c = Ord("r") -> 13
       [] c = Ord("t") -> 9
       [] OTHER -> c]

\* the body of a string whose opening quote is before i
RECURSIVE ParseString(_, _, _)
ParseString(s, i, acc) ==
  LET c == At(s, i)
  IN  IF c = -1 THEN JFail
      ELSE IF c = ChQuote THEN [ok |-> TRUE, val |-> acc, pos |-> i + 1]
      ELSE IF c = ChBackslash THEN
        IF At(s, i + 1) \in DOMAIN Escapes
        THEN ParseString(s, i + 2, Append(acc, Escapes[s[i + 1]]))
        ELSE JFail
      ELSE IF c < 32 THEN JFail
      ELSE ParseString(s, i + 1, Append(acc, c))

RECURSIVE ParseValue(_, _)
RECURSIVE ParseMembers(_, _, _)
RECURSIVE ParseElements(_, _, _)

\* "key" : value pairs up to the closing brace; i is at the key
ParseMembers(s, i, f) ==
  IF At(s, i) # ChQuote THEN JFail
  ELSE LET k == ParseString(s, i + 1, <<>>)
       IN  IF ~k.ok THEN JFail
           ELSE LET c == SkipWs(s, k.pos)
                IN  IF At(s, c) # ChColon THEN JFail
                    ELSE LET v == ParseValue(s, SkipWs(s, c + 1))
                         IN  IF ~v.ok THEN JFail
                             ELSE LET e == SkipWs(s, v.pos)
                                      g == DictSet(f, k.val, v.val)
                                  IN  IF At(s, e) = ChRBrace
                                      THEN [ok |-> TRUE, val |-> JDict(g), pos |-> e + 1]
                                      ELSE IF At(s, e) = ChComma
                                      THEN ParseMembers(s, SkipWs(s, e + 1), g)
                                      ELSE JFail

\* values up to the closing bracket; i is at a value
ParseElements(s, i, l) ==
  LET v == ParseValue(s, i)
  IN  IF ~v.ok THEN JFail
      ELSE LET e == SkipWs(s, v.pos)
               m == Append(l, v.val)
           IN  IF At(s, e) = ChRBracket
               THEN [ok |-> TRUE, val |-> JList(m), pos |-> e + 1]
               ELSE IF At(s, e) = ChComma
               THEN ParseElements(s, SkipWs(s, e + 1), m)
               ELSE JFail

ParseValue(s, i) ==
  LET c == At(s, i)
  IN  IF c = ChLBrace THEN
        LET j == SkipWs(s, i + 1)
        IN  IF At(s, j) = ChRBrace
            THEN [ok |-> TRUE, val |-> JDict(<<>>), pos |-> j + 1]
            ELSE ParseMembers(s, j, <<>>)
      ELSE IF c = ChLBracket THEN
        LET j == SkipWs(s, i + 1)
        IN  IF At(s, j) = ChRBracket
            THEN [ok |-> TRUE, val |-> JList(<<>>), pos |-> j + 1]
            ELSE ParseElements(s, j, <<>>)
      ELSE IF c = ChQuote THEN
        LET r == ParseString(s, i + 1, <<>>)
        IN  IF r.ok THEN [ok |-> TRUE, val |-> JStr(r.val), pos |-> r.pos] ELSE JFail
      ELSE IF c = ChMinus \/ IsDigit(c) THEN ParseNumber(s, i)
      ELSE IF StartsAt(s, i, LitTrue)
        THEN [ok |-> TRUE, val |-> JBool(TRUE), pos |-> i + 4]
      ELSE IF StartsAt(s, i, LitFalse)
        THEN [ok |-> TRUE, val |-> JBool(FALSE), pos |-> i + 5]
      ELSE IF StartsAt(s, i, LitNull)
        THEN [ok |-> TRUE, val |-> JNull, pos |-> i + 4]
      ELSE JFail

\* json.loads(s): [ok |-> TRUE, val |-> value], or [ok |-> FALSE] where
\* Python raises json.JSONDecodeError (also on data after the value)
json_loads(s) ==
  LET r == ParseValue(s, SkipWs(s, 1))
  IN  IF r.ok /\ SkipWs(s, r.pos) > Len(s)
      THEN [ok |-> TRUE, val |-> r.val]
      ELSE JFail

(***************************************************************************)
(* Python helpers used by invoke_agent_runtime.                            *)
(***************************************************************************)
\* bool(v) of a decoded JSON value
Truthy(j) ==
  CASE j.t = "null" -> FALSE
    [] j.t = "bool" -> j.v
    [] j.t = "num"  -> j.v # 0
    [] j.t = "str"  -> Len(j.v) > 0
    [] j.t = "list" -> Len(j.v) > 0
    [] j.t = "dict" -> DOMAIN j.v # {}

\* d.get(k, default) on a dict value
DictGet(d, k, default) == IF k \in DOMAIN d.v THEN d.v[k] ELSE default

\* of the decoded JSON types only dict has a .get attribute
HasGet(j) == j.t = "dict"

RECURSIVE IntDigits(_)
IntDigits(n) ==
  IF n < 10 THEN <<ChZero + n>> ELSE Append(IntDigits(n \div 10), ChZero + (n % 10))

\* str(v), what print writes for v (str, int and bool values)
PyStr(j) ==
  CASE j.t = "str"  -> j.v
    [] j.t = "num"  -> IF j.v < 0 THEN <<ChMinus>> \o IntDigits(0 - j.v) ELSE IntDigits(j.v)
    [] j.t = "bool" -> IF j.v THEN Str("True") ELSE Str("False")

\* sep.join(parts)
RECURSIVE Join(_, _)
Join(sep, parts) ==
  IF parts = <<>> THEN <<>>
  ELSE IF Len(parts) = 1 THEN parts[1]
  ELSE parts[1] \o sep \o Join(sep, Tail(parts))

\* the concatenation of a sequence of sequences
RECURSIVE Concat(_)
Concat(parts) == IF parts = <<>> THEN <<>> ELSE Head(parts) \o Concat(Tail(parts))

\* needle in haystack, on header strings
Contains(haystack, needle) ==
  \E i \in 1..(Len(haystack) - Len(needle) + 1) :
     SubSeq(haystack, i, i + Len(needle) - 1) = needle

DataPrefix == Str("data: ")

\* line.startswith("data: ")
startswith(line, prefix) ==
  Len(line) >= Len(prefix) /\ SubSeq(line, 1, Len(prefix)) = prefix

\* line[5:]
StripPrefix_OffByOne(line) == SubSeq(line, 6, Len(line))

\* line[6:]
StripPrefix(line) == SubSeq(line, 7, Len(line))

KeyEvent == Str("event")
KeyContentBlockDelta == Str("contentBlockDelta")
KeyDelta == Str("delta")
\* the key misspelt
KeyText_Typo == Str("Text")
KeyText == Str("text")

\* Lines 50-59: what the nested lookups do with one decoded payload:
\* raise AttributeError, print the text, or nothing.
ExtractText(data) ==
  LET nothing == [err |-> "none", emit |-> FALSE]
      attrerr == [err |-> "AttributeError", emit |-> FALSE]
  IN  IF data.t # "dict" THEN nothing
      ELSE LET event == DictGet(data, KeyEvent, JStr(<<>>))
           IN  IF ~Truthy(event) THEN nothing
               ELSE IF ~HasGet(event) THEN attrerr
               ELSE LET contentBlockDelta == DictGet(event, KeyContentBlockDelta, JNull)
                    IN  IF ~Truthy(contentBlockDelta) THEN nothing
                        ELSE IF ~HasGet(contentBlockDelta) THEN attrerr
                        ELSE LET delta == DictGet(contentBlockDelta, KeyDelta, JStr(<<>>))
                             IN  IF ~Truthy(delta) THEN nothing
                                 ELSE IF ~HasGet(delta) THEN attrerr
                                 ELSE LET text == DictGet(delta, KeyText, JStr(<<>>))
                                      IN  IF Truthy(text)
                                          THEN [err |-> "none", emit |-> TRUE, text |-> text]
                                          ELSE nothing

\* json.loads wrapped in a try/except that passes
ProcessPayload_Swallow(line) ==
  LET data == json_loads(line)
  IN  IF ~data.ok
      THEN [err |-> "none", out |-> <<>>, add |-> <<line>>]
      ELSE LET ex == ExtractText(data.val)
           IN  IF ex.err # "none"
               THEN [err |-> ex.err, out |-> <<>>, add |-> <<>>]
               ELSE [err |-> "none",
                     out |-> IF ex.emit
                             THEN <<[site |-> "L59", text |-> PyStr(ex.text)]>>
                             ELSE <<>>,
                     add |-> <<line>>]

\* Lines 49-61: a line that starts with "data: ", its prefix stripped:
\* the exception raised (or "none"), what is printed, what is appended to content
ProcessPayload(line) ==
  LET data == json_loads(line)
  IN  IF ~data.ok
      THEN [err |-> "JSONDecodeError", out |-> <<>>, add |-> <<>>]
      ELSE LET ex == ExtractText(data.val)
           IN  IF ex.err # "none"
               THEN [err |-> ex.err, out |-> <<>>, add |-> <<>>]
               ELSE [err |-> "none",
                     out |-> IF ex.emit
                             THEN <<[site |-> "L59", text |-> PyStr(ex.text)]>>
                             ELSE <<>>,
                     add |-> <<line>>]

\* Lines 45-61: the body of the loop for one line read from the stream
ProcessLine(raw) ==
  LET skip == [err |-> "none", out |-> <<>>, add |-> <<>>]
  IN  IF raw = <<>> THEN skip
      ELSE LET dec == Utf8Decode(raw)
           IN  IF ~dec.ok THEN [err |-> "UnicodeDecodeError", out |-> <<>>, add |-> <<>>]
               ELSE IF ~startswith(dec.s, DataPrefix) THEN skip
               ELSE ProcessPayload(StripPrefix(dec.s))

(***************************************************************************)
(* Inputs: what the external capabilities can return.                      *)
(***************************************************************************)
PathOpen == "data: {\"event\":{\"contentBlockDelta\":{\"delta\":{\"text\":"
PathClose == "}}}}"

\* text "Hello"
LineHello == Utf8Encode(Str(PathOpen \o "\"Hello\"" \o PathClose))
\* text "e-acute !", the first character two bytes long in UTF-8
LineAccent ==
  Utf8Encode(Str(PathOpen \o "\"") \o <<233>> \o Str("!\"" \o PathClose))
\* text ""
LineEmptyText == Utf8Encode(Str(PathOpen \o "\"\"" \o PathClose))
\* text 5, a number
LineNumText == Utf8Encode(Str(PathOpen \o "5" \o PathClose))
LineNoEvent == Utf8Encode(Str("data: {\"other\":1}"))
LineEmptyEvent == Utf8Encode(Str("data: {\"event\":{}}"))
LineNoDelta == Utf8Encode(Str("data: {\"event\":{\"contentBlockDelta\":{\"x\":1}}}"))
LineNoText == Utf8Encode(Str("data: {\"event\":{\"contentBlockDelta\":{\"delta\":{\"x\":1}}}}"))
LineEventStr == Utf8Encode(Str("data: {\"event\":\"x\"}"))
LineDeltaList == Utf8Encode(Str("data: {\"event\":{\"contentBlockDelta\":{\"delta\":[1]}}}"))
LineTopList == Utf8Encode(Str("data: [1]"))
LineNotJson == Utf8Encode(Str("data: not-json"))
LineEmptyPayload == Utf8Encode(Str("data: "))
LineComment == Utf8Encode(Str(": ping"))
LineNoSpace == Utf8Encode(Str("data:{\"event\":{}}"))
LineBlank == <<>>
\* 0xFF, never valid in UTF-8
LineBadUtf8 == <<255>>

StreamLines ==
  {LineHello, LineAccent, LineEmptyText, LineNumText, LineNoEvent, LineEmptyEvent,
   LineNoDelta, LineNoText, LineEventStr, LineDeltaList, LineTopList, LineNotJson,
   LineEmptyPayload, LineComment, LineNoSpace, LineBlank, LineBadUtf8}

\* ProcessLine, tabulated over the lines of the model
LineResult == [l \in StreamLines |-> ProcessLine(l)]

\* the sequences of at most n elements of S
SeqsUpTo(S, n) == UNION {[1..k -> S] : k \in 0..n}

LineSeqs == SeqsUpTo(StreamLines, MaxLines)

\* {"k":"e-acute"}, [1] and the truncated {"k":
BodyAccent == Utf8Encode(Str("{\"k\":\"") \o <<233>> \o Str("\"}"))
BodyList == Utf8Encode(Str("[1]"))
BodyTruncated == Utf8Encode(Str("{\"k\":"))
JsonBodies == {BodyAccent, BodyList, BodyTruncated}

\* every way of cutting b into at most k non-empty chunks
RECURSIVE Splits(_, _)
Splits(b, k) ==
  IF b = <<>> THEN {<<>>}
  ELSE IF k <= 1 THEN {<<b>>}
  ELSE {<<b>>} \cup
       UNION {{<<SubSeq(b, 1, i)>> \o r : r \in Splits(SubSeq(b, i + 1, Len(b)), k - 1)} :
              i \in 1..(Len(b) - 1)}

ChunkSeqs == UNION {Splits(b, MaxChunks) : b \in JsonBodies}

StreamTypes == {"text/event-stream", "text/event-stream; charset=utf-8"}
OtherTypes == {"application/json", "application/json; charset=utf-8", "text/plain"}

\* the responses of agentcore_client.invoke_agent_runtime: a dict with the
\* body under 'response' and, most of the time, a 'contentType'
Responses ==
  {[contentType |-> ct, response |-> b] : ct \in StreamTypes, b \in LineSeqs}
  \cup {[contentType |-> ct, response |-> b] : ct \in OtherTypes, b \in ChunkSeqs}
  \cup {[response |-> b] : b \in ChunkSeqs}

Runtime(n) == [agentRuntimeName |-> "agent-" \o n, agentRuntimeArn |-> "arn:" \o n]
RuntimeSet == {Runtime("a"), Runtime("b"), Runtime("c")}

\* the listings of list_agent_runtimes: no runtime listed twice
Listings ==
  {l \in SeqsUpTo(RuntimeSet, MaxRuntimes) :
     \A i, j \in 1..Len(l) : i # j => l[i] # l[j]}

\* args.prompt, the default of line 79
Prompt == Str("What is the weather like in Seattle?")

\* json.dumps({"prompt": prompt}) for a prompt that needs no escaping
DumpPrompt(prompt) == Str("{\"prompt\": \"") \o prompt \o Str("\"}")

NoResponse == [none |-> TRUE]

(***************************************************************************)
(* State.                                                                  *)
(***************************************************************************)
VARIABLES
  pc,         \* position in invoke_agent.py
  runtimes,   \* __main__: the listing
  agent_arn,  \* __main__: the identity chosen
  payload,    \* __main__: the serialized request
  calls,      \* the requests submitted to the invocation capability
  response,   \* invoke_agent_runtime: the response dict
  pos,        \* how many lines or chunks of the body have been read
  content,    \* invoke_agent_runtime: the list 'content'
  stdout,     \* what has been printed, in order
  err,        \* the exception that ended the script, or "none"
  ret         \* what invoke_agent_runtime returned

invokeVars ==
  <<pc, runtimes, agent_arn, payload, calls, response, pos, content, stdout, err, ret>>

VARIABLES
  wpc,        \* position in wait_for_status
  status,     \* wait_for_status: the local 'status'
  wtrace,     \* the calls of agentcore_runtime.status() and time.sleep, in order
  wout,       \* what wait_for_status has printed
  wret        \* what wait_for_status returned

waitVars == <<wpc, status, wtrace, wout, wret>>

VARIABLES
  dpc,        \* position in deploy_to_agentcore.py run as a script
  region,     \* deploy_to_agentcore.py: the module global 'region'
  args,       \* __main__: the parsed command line
  dtrace,     \* the calls made on agentcore_runtime, in order
  launch_result, \* deploy_agentcore: the local 'launch_result'
  derr        \* the exception that ended the script, or "none"

deployVars == <<dpc, region, args, dtrace, launch_result, derr>>

VARIABLES
  cpc,        \* position in delete_agent_runtimes
  cruntimes,  \* delete_agent_runtimes: the local 'runtimes'
  ci,         \* how many runtimes the for loop has gone through
  confirm,    \* delete_agent_runtimes: the local 'confirm'
  ctrace,     \* the calls of input and delete_agent_runtime, in order
  cout        \* what delete_agent_runtimes has printed

cleanupVars == <<cpc, cruntimes, ci, confirm, ctrace, cout>>

vars == <<invokeVars, waitVars, deployVars, cleanupVars>>

\* what the steps of each script leave alone
exceptInvoke == <<waitVars, deployVars, cleanupVars>>
exceptWait == <<invokeVars, deployVars, cleanupVars>>
exceptDeploy == <<invokeVars, waitVars, cleanupVars>>
exceptCleanup == <<invokeVars, waitVars, deployVars>>

InitInvoke ==
  /\ pc = "L83"
  /\ runtimes = <<>>
  /\ agent_arn = ""
  /\ payload = <<>>
  /\ calls = <<>>
  /\ response = NoResponse
  /\ pos = 0
  /\ content = <<>>
  /\ stdout = <<>>
  /\ err = "none"
  /\ ret = NoResponse

Rule == [char |-> "-", times |-> 80]

RECURSIVE ListingPrints(_)
ListingPrints(rs) ==
  IF rs = <<>> THEN <<>>
  ELSE <<[site |-> "L25", arg |-> Head(rs).agentRuntimeName],
         [site |-> "L26", arg |-> Head(rs).agentRuntimeArn],
         [site |-> "L27", arg |-> Rule]>> \o ListingPrints(Tail(rs))

\* Line 83 and lines 20-28
get_agent_runtimes ==
  /\ pc = "L83"
  /\ \E rs \in Listings :
       /\ runtimes' = rs
       /\ stdout' = stdout \o <<[site |-> "L23", arg |-> Rule]>> \o ListingPrints(rs)
  /\ pc' = "L84"
  /\ UNCHANGED <<agent_arn, payload, calls, response, pos, content, err, ret>>
  /\ UNCHANGED exceptInvoke

\* runtimes[-1]['agentRuntimeArn']
ChosenArn_Last(rs) == rs[Len(rs)].agentRuntimeArn

\* Line 85: runtimes[0]['agentRuntimeArn']
ChosenArn(rs) == rs[1].agentRuntimeArn

\* Lines 84-87
MainChoose ==
  /\ pc = "L84"
  /\ IF Len(runtimes) # 0
     THEN /\ agent_arn' = ChosenArn(runtimes)
          /\ payload' = DumpPrompt(Prompt)
          /\ stdout' = Append(stdout, [site |-> "L87", arg |-> DumpPrompt(Prompt)])
          /\ pc' = "L35"
     ELSE /\ pc' = "exit"
          /\ UNCHANGED <<agent_arn, payload, stdout>>
  /\ UNCHANGED <<runtimes, calls, response, pos, content, err, ret>>
  /\ UNCHANGED exceptInvoke

\* Lines 35-41
InvokeCall ==
  /\ pc = "L35"
  /\ calls' = Append(calls, [agentRuntimeArn |-> agent_arn, qualifier |-> "DEFAULT",
                             payload |-> payload])
  /\ \E r \in Responses :
       /\ response' = r
       /\ stdout' = Append(stdout, [site |-> "L40", arg |-> r])
  /\ pos' = 0
  /\ pc' = "L42"
  /\ UNCHANGED <<runtimes, agent_arn, payload, content, err, ret>>
  /\ UNCHANGED exceptInvoke

\* a failed call submitted a second time
InvokeFails_Retry ==
  /\ pc = "L35"
  /\ calls' = Append(calls, [agentRuntimeArn |-> agent_arn, qualifier |-> "DEFAULT",
                             payload |-> payload])
  /\ IF Len(calls) >= 1
     THEN err' = "ClientError" /\ pc' = "raised"
     ELSE UNCHANGED <<pc, err>>
  /\ UNCHANGED <<runtimes, agent_arn, payload, response, pos, content, stdout, ret>>
  /\ UNCHANGED exceptInvoke

\* Line 35, the call raising (a botocore error): nothing in the function or
\* in __main__ catches it
InvokeFails ==
  /\ pc = "L35"
  /\ calls' = Append(calls, [agentRuntimeArn |-> agent_arn, qualifier |-> "DEFAULT",
                             payload |-> payload])
  /\ err' = "ClientError"
  /\ pc' = "raised"
  /\ UNCHANGED <<runtimes, agent_arn, payload, response, pos, content, stdout, ret>>
  /\ UNCHANGED exceptInvoke

\* response.get("contentType", "")
ContentTypeOr(r, default) ==
  IF "contentType" \in DOMAIN r THEN r.contentType ELSE default

IsEventStream(r) == Contains(ContentTypeOr(r, ""), "text/event-stream")

\* "application/json" in response.get("contentType", "")
IsJson_Contains(r) == Contains(ContentTypeOr(r, ""), "application/json")

\* response.get("contentType") == "application/json"
IsJson(r) == "contentType" \in DOMAIN r /\ r.contentType = "application/json"

\* Lines 42-43, 64-66, 71
Dispatch ==
  /\ pc = "L42"
  /\ IF IsEventStream(response) THEN pc' = "L44" /\ content' = <<>>
     ELSE IF IsJson(response) THEN pc' = "L67" /\ content' = <<>>
     ELSE pc' = "L73" /\ UNCHANGED content
  /\ UNCHANGED <<runtimes, agent_arn, payload, calls, response, pos, stdout, err, ret>>
  /\ UNCHANGED exceptInvoke

\* the output of a line put in front of what was printed before
StreamLine_Reordered ==
  /\ pc = "L44"
  /\ pos < Len(response.response)
  /\ pos' = pos + 1
  /\ LET r == LineResult[response.response[pos + 1]]
     IN  IF r.err # "none"
         THEN /\ err' = r.err
              /\ pc' = "raised"
              /\ UNCHANGED <<content, stdout>>
         ELSE /\ stdout' = r.out \o stdout
              /\ content' = content \o r.add
              /\ UNCHANGED <<pc, err>>
  /\ UNCHANGED <<runtimes, agent_arn, payload, calls, response, ret>>
  /\ UNCHANGED exceptInvoke

\* Lines 44-61, one iteration
StreamLine ==
  /\ pc = "L44"
  /\ pos < Len(response.response)
  /\ pos' = pos + 1
  /\ LET r == LineResult[response.response[pos + 1]]
     IN  IF r.err # "none"
         THEN /\ err' = r.err
              /\ pc' = "raised"
              /\ UNCHANGED <<content, stdout>>
         ELSE /\ stdout' = stdout \o r.out
              /\ content' = content \o r.add
              /\ UNCHANGED <<pc, err>>
  /\ UNCHANGED <<runtimes, agent_arn, payload, calls, response, ret>>
  /\ UNCHANGED exceptInvoke

\* Lines 44 and 62: the stream is exhausted
StreamEnd ==
  /\ pc = "L44"
  /\ pos = Len(response.response)
  /\ stdout' = Append(stdout, [site |-> "L62", text |-> Join(<<10>>, content)])
  /\ pc' = "L74"
  /\ UNCHANGED <<runtimes, agent_arn, payload, calls, response, pos, content, err, ret>>
  /\ UNCHANGED exceptInvoke

\* Lines 67-68, one iteration
JsonChunk ==
  /\ pc = "L67"
  /\ pos < Len(response.response)
  /\ pos' = pos + 1
  /\ LET dec == Utf8Decode(response.response[pos + 1])
     IN  IF dec.ok
         THEN /\ content' = Append(content, dec.s)
              /\ UNCHANGED <<pc, err>>
         ELSE /\ err' = "UnicodeDecodeError"
              /\ pc' = "raised"
              /\ UNCHANGED content
  /\ UNCHANGED <<runtimes, agent_arn, payload, calls, response, stdout, ret>>
  /\ UNCHANGED exceptInvoke

\* Lines 67 and 69: the chunks are exhausted
JsonEnd ==
  /\ pc = "L67"
  /\ pos = Len(response.response)
  /\ LET r == json_loads(Concat(content))
     IN  IF r.ok
         THEN /\ stdout' = Append(stdout, [site |-> "L69", arg |-> r.val])
              /\ pc' = "L74"
              /\ UNCHANGED err
         ELSE /\ err' = "JSONDecodeError"
              /\ pc' = "raised"
              /\ UNCHANGED stdout
  /\ UNCHANGED <<runtimes, agent_arn, payload, calls, response, pos, content, ret>>
  /\ UNCHANGED exceptInvoke

\* Lines 44 and 67, the read of the next line or chunk raising (connection
\* reset, read timeout)
ReadFails ==
  /\ pc \in {"L44", "L67"}
  /\ pos < Len(response.response)
  /\ err' = "TransportError"
  /\ pc' = "raised"
  /\ UNCHANGED <<runtimes, agent_arn, payload, calls, response, pos, content, stdout, ret>>
  /\ UNCHANGED exceptInvoke

\* Line 73
RawPrint ==
  /\ pc = "L73"
  /\ stdout' = Append(stdout, [site |-> "L73", arg |-> response])
  /\ pc' = "L74"
  /\ UNCHANGED <<runtimes, agent_arn, payload, calls, response, pos, content, err, ret>>
  /\ UNCHANGED exceptInvoke

\* Line 74
Return ==
  /\ pc = "L74"
  /\ ret' = response
  /\ pc' = "exit"
  /\ UNCHANGED <<runtimes, agent_arn, payload, calls, response, pos, content, stdout, err>>
  /\ UNCHANGED exceptInvoke

NextInvoke ==
  \/ get_agent_runtimes
  \/ MainChoose
  \/ InvokeCall
  \/ InvokeFails
  \/ Dispatch
  \/ StreamLine
  \/ StreamEnd
  \/ JsonChunk
  \/ JsonEnd
  \/ ReadFails
  \/ RawPrint
  \/ Return

(***************************************************************************)
(* deploy_to_agentcore.py: wait_for_status.                                *)
(***************************************************************************)
\* the statuses agentcore_runtime.status() reports for the endpoint
Statuses ==
  {"CREATING", "UPDATING", "DELETING",
   "READY", "CREATE_FAILED", "DELETE_FAILED", "UPDATE_FAILED"}

\* the failure states left out
end_status_ReadyOnly == {"READY"}

\* Line 39
end_status == {"READY", "CREATE_FAILED", "DELETE_FAILED", "UPDATE_FAILED"}

\* Line 41: the argument of time.sleep
SleepSeconds == 10

StatusCall(s) == [op |-> "status", result |-> s]
SleepCall(n) == [op |-> "sleep", secs |-> n]

NumFetches == Len(SelectSeq(wtrace, LAMBDA e : e.op = "status"))

InitWait ==
  /\ wpc = "L37"
  /\ status = "unset"
  /\ wtrace = <<>>
  /\ wout = <<>>
  /\ wret = "not returned"

\* Lines 37-39
WaitFetchFirst ==
  /\ wpc = "L37"
  /\ \E s \in Statuses :
       /\ status' = s
       /\ wtrace' = Append(wtrace, StatusCall(s))
  /\ wpc' = "L40"
  /\ UNCHANGED <<wout, wret>>
  /\ UNCHANGED exceptWait

\* the loop given up after three fetches
WaitTest_MaxAttempts ==
  /\ wpc = "L40"
  /\ wpc' = IF status \notin end_status /\ NumFetches < 3 THEN "L41" ELSE "L45"
  /\ UNCHANGED <<status, wtrace, wout, wret>>
  /\ UNCHANGED exceptWait

\* Line 40
WaitTest ==
  /\ wpc = "L40"
  /\ wpc' = IF status \notin end_status THEN "L41" ELSE "L45"
  /\ UNCHANGED <<status, wtrace, wout, wret>>
  /\ UNCHANGED exceptWait

\* Line 41
WaitSleep ==
  /\ wpc = "L41"
  /\ wtrace' = Append(wtrace, SleepCall(SleepSeconds))
  /\ wpc' = "L42"
  /\ UNCHANGED <<status, wout, wret>>
  /\ UNCHANGED exceptWait

\* Lines 42-44
WaitFetchAgain ==
  /\ wpc = "L42"
  /\ NumFetches < MaxFetches
  /\ \E s \in Statuses :
       /\ status' = s
       /\ wtrace' = Append(wtrace, StatusCall(s))
       /\ wout' = Append(wout, s)
  /\ wpc' = "L40"
  /\ UNCHANGED wret
  /\ UNCHANGED exceptWait

\* the function body ends after the loop with no return statement
WaitReturn ==
  /\ wpc = "L45"
  /\ wret' = "None"
  /\ wpc' = "returned"
  /\ UNCHANGED <<status, wtrace, wout>>
  /\ UNCHANGED exceptWait

NextWait ==
  \/ WaitFetchFirst
  \/ WaitTest
  \/ WaitSleep
  \/ WaitFetchAgain
  \/ WaitReturn

(***************************************************************************)
(* deploy_to_agentcore.py run as a script.                                 *)
(***************************************************************************)
\* Python's None
PyNone == [none |-> TRUE]

\* a local or global not assigned yet
Unset == [unset |-> TRUE]

\* a Python str kept as a TLA+ string (names and paths are only passed on)
Text(s) == [str |-> s]

\* boto_session.region_name: None when no region is configured
RegionNames == {PyNone, Text("us-west-2"), Text("us-east-1")}

\* --agent_name and --entry_point: not required, None when left out
AgentNames == {PyNone, Text("weather"), Text("my_agent")}
EntryPoints == {PyNone, Text("agent.py"), Text("src/main.py")}

\* what agentcore_runtime.launch() returns
LaunchResults == {[agent_arn |-> "arn:a"], [agent_arn |-> "arn:b"]}

InitDeploy ==
  /\ dpc = "L31"
  /\ region = Unset
  /\ args = Unset
  /\ dtrace = <<>>
  /\ launch_result = Unset
  /\ derr = "none"

\* Lines 31-34
DeployLoad ==
  /\ dpc = "L31"
  /\ region' \in RegionNames
  /\ dpc' = "L58"
  /\ UNCHANGED <<args, dtrace, launch_result, derr>>
  /\ UNCHANGED exceptDeploy

\* Lines 57-61
DeployParse ==
  /\ dpc = "L58"
  /\ \E a \in AgentNames, e \in EntryPoints :
       args' = [agent_name |-> a, entry_point |-> e]
  /\ dpc' = "L47"
  /\ UNCHANGED <<region, dtrace, launch_result, derr>>
  /\ UNCHANGED exceptDeploy

\* the call of lines 47-54, with the default of line 46
ConfigureCall ==
  [op |-> "configure",
   entrypoint |-> args.entry_point,
   auto_create_execution_role |-> TRUE,
   auto_create_ecr |-> TRUE,
   requirements_file |-> Text("requirements.txt"),
   region |-> region,
   agent_name |-> args.agent_name]

\* Lines 63-66 and 47-54
DeployConfigure ==
  /\ dpc = "L47"
  /\ dtrace' = Append(dtrace, ConfigureCall)
  /\ dpc' = "L55"
  /\ UNCHANGED <<region, args, launch_result, derr>>
  /\ UNCHANGED exceptDeploy

\* Lines 47-54, configure raising: nothing catches it
DeployConfigureFails ==
  /\ dpc = "L47"
  /\ dtrace' = Append(dtrace, ConfigureCall)
  /\ derr' = "ConfigureError"
  /\ dpc' = "raised"
  /\ UNCHANGED <<region, args, launch_result>>
  /\ UNCHANGED exceptDeploy

\* Line 55
DeployLaunch ==
  /\ dpc = "L55"
  /\ dtrace' = Append(dtrace, [op |-> "launch"])
  /\ launch_result' \in LaunchResults
  /\ dpc' = "L56"
  /\ UNCHANGED <<region, args, derr>>
  /\ UNCHANGED exceptDeploy

\* Line 55, launch raising: nothing catches it
DeployLaunchFails ==
  /\ dpc = "L55"
  /\ dtrace' = Append(dtrace, [op |-> "launch"])
  /\ derr' = "LaunchError"
  /\ dpc' = "raised"
  /\ UNCHANGED <<region, args, launch_result>>
  /\ UNCHANGED exceptDeploy

\* deploy_agentcore ends after line 55 and the script after line 66
DeployReturn ==
  /\ dpc = "L56"
  /\ dpc' = "exit"
  /\ UNCHANGED <<region, args, dtrace, launch_result, derr>>
  /\ UNCHANGED exceptDeploy

NextDeploy ==
  \/ DeployLoad
  \/ DeployParse
  \/ DeployConfigure
  \/ DeployConfigureFails
  \/ DeployLaunch
  \/ DeployLaunchFails
  \/ DeployReturn

(***************************************************************************)
(* cleanup_agents.py: delete_agent_runtimes.                               *)
(***************************************************************************)
\* an entry of list_agent_runtimes as cleanup_agents.py reads it
RuntimeWithId(n) ==
  [agentRuntimeName |-> "agent-" \o n, agentRuntimeId |-> "id-" \o n]

\* the listings of list_agent_runtimes: no runtime listed twice
CleanupListings ==
  {l \in SeqsUpTo({RuntimeWithId("a"), RuntimeWithId("b"), RuntimeWithId("c")},
                  MaxRuntimes) :
     \A i, j \in 1..Len(l) : i # j => l[i] # l[j]}

\* what the user types at the prompt
Answers == {Str("y"), Str("Y"), Str("n"), Str("yes"), Str("")}

\* every character lowercased
lower_Identity(s) == s

\* str.lower() on ASCII text
lower(s) == [i \in 1..Len(s) |-> IF s[i] >= 65 /\ s[i] <= 90 THEN s[i] + 32 ELSE s[i]]

InitCleanup ==
  /\ cpc = "L23"
  /\ cruntimes = <<>>
  /\ ci = 0
  /\ confirm = <<>>
  /\ ctrace = <<>>
  /\ cout = <<>>

\* Line 23 and lines 18-20
CleanupList ==
  /\ cpc = "L23"
  /\ cruntimes' \in CleanupListings
  /\ cpc' = "L24"
  /\ UNCHANGED <<ci, confirm, ctrace, cout>>
  /\ UNCHANGED exceptCleanup

\* Lines 24-31: the next runtime is shown and the user asked
CleanupPrompt ==
  /\ cpc = "L24"
  /\ ci < Len(cruntimes)
  /\ LET runtime == cruntimes[ci + 1]
     IN  /\ cout' = cout \o <<[site |-> "L27", arg |-> Rule],
                               [site |-> "L28", name |-> runtime.agentRuntimeName,
                                id |-> runtime.agentRuntimeId]>>
         /\ \E a \in Answers :
              /\ confirm' = a
              /\ ctrace' = Append(ctrace, [op |-> "input", shown |-> runtime.agentRuntimeId,
                                           answer |-> a])
              /\ IF lower(a) # Str("y")
                 THEN ci' = ci + 1 /\ UNCHANGED cpc
                 ELSE cpc' = "L33" /\ UNCHANGED ci
  /\ UNCHANGED cruntimes
  /\ UNCHANGED exceptCleanup

\* Lines 32-36
CleanupDelete ==
  /\ cpc = "L33"
  /\ LET runtime == cruntimes[ci + 1]
     IN  /\ ctrace' = Append(ctrace, [op |-> "delete",
                                      agentRuntimeId |-> runtime.agentRuntimeId,
                                      raised |-> FALSE])
         /\ cout' = Append(cout, [site |-> "L36", name |-> runtime.agentRuntimeName])
  /\ ci' = ci + 1
  /\ cpc' = "L24"
  /\ UNCHANGED <<cruntimes, confirm>>
  /\ UNCHANGED exceptCleanup

\* a failed deletion ending the function
CleanupDeleteFails_Stops ==
  /\ cpc = "L33"
  /\ LET runtime == cruntimes[ci + 1]
     IN  /\ ctrace' = Append(ctrace, [op |-> "delete",
                                      agentRuntimeId |-> runtime.agentRuntimeId,
                                      raised |-> TRUE])
         /\ cout' = Append(cout, [site |-> "L38", name |-> runtime.agentRuntimeName])
  /\ cpc' = "exit"
  /\ UNCHANGED <<cruntimes, ci, confirm>>
  /\ UNCHANGED exceptCleanup

\* Lines 32-35 and 37-38: delete_agent_runtime raising
CleanupDeleteFails ==
  /\ cpc = "L33"
  /\ LET runtime == cruntimes[ci + 1]
     IN  /\ ctrace' = Append(ctrace, [op |-> "delete",
                                      agentRuntimeId |-> runtime.agentRuntimeId,
                                      raised |-> TRUE])
         /\ cout' = Append(cout, [site |-> "L38", name |-> runtime.agentRuntimeName])
  /\ ci' = ci + 1
  /\ cpc' = "L24"
  /\ UNCHANGED <<cruntimes, confirm>>
  /\ UNCHANGED exceptCleanup

\* Lines 24 and 39: the listing is exhausted
CleanupEnd ==
  /\ cpc = "L24"
  /\ ci = Len(cruntimes)
  /\ cout' = Append(cout, [site |-> "L39", arg |-> Rule])
  /\ cpc' = "exit"
  /\ UNCHANGED <<cruntimes, ci, confirm, ctrace>>
  /\ UNCHANGED exceptCleanup

NextCleanup ==
  \/ CleanupList
  \/ CleanupPrompt
  \/ CleanupDelete
  \/ CleanupDeleteFails
  \/ CleanupEnd

Init == InitInvoke /\ InitWait /\ InitDeploy /\ InitCleanup

\* invoke_agent.py run as a script
Spec == Init /\ [][NextInvoke]_vars

\* wait_for_status called once
SpecWait == Init /\ [][NextWait]_vars

\* wait_for_status called once and run to its end: the interpreter always
\* takes the next step of the function when there is one
SpecWaitLive == Init /\ [][NextWait]_vars /\ WF_vars(NextWait)

\* deploy_to_agentcore.py run as a script
SpecDeploy == Init /\ [][NextDeploy]_vars

\* cleanup_agents.py run as a script
SpecCleanup == Init /\ [][NextCleanup]_vars

(***************************************************************************)
(* Vocabulary of the properties.                                           *)
(***************************************************************************)
\* the body of the response as the capability returned it
Body == response.response

\* an event-stream response is being, or has been, decoded
StreamRun ==
  /\ pc \in {"L44", "L74", "exit", "raised"}
  /\ response # NoResponse
  /\ ContentTypeOr(response, "") \in StreamTypes

\* the fragments written to the output sink so far
Fragments ==
  LET f == SelectSeq(stdout, LAMBDA e : e.site = "L59")
  IN  [i \in 1..Len(f) |-> f[i].text]

TextPath == <<Str("event"), Str("contentBlockDelta"), Str("delta"), Str("text")>>

\* the value found by following the keys from v: [has |-> TRUE, val |-> value],
\* or [has |-> FALSE] when a key is not there
RECURSIVE PathValue(_, _)
PathValue(v, keys) ==
  IF keys = <<>> THEN [has |-> TRUE, val |-> v]
  ELSE IF v.t = "dict" /\ Head(keys) \in DOMAIN v.v
  THEN PathValue(v.v[Head(keys)], Tail(keys))
  ELSE [has |-> FALSE]

\* what a line of the stream is, read as the framing defines it:
\*   kind "blank", "undecodable", "other" (no `data: ` prefix), "badjson"
\*   (prefix, payload not JSON) or "event" (prefix, JSON payload), with the
\*   decoded line, the payload and the value at event.contentBlockDelta.delta.text
LineInfoOf(l) ==
  IF l = <<>> THEN [kind |-> "blank"]
  ELSE LET d == Utf8Decode(l)
       IN  IF ~d.ok THEN [kind |-> "undecodable"]
           ELSE IF ~(Len(d.s) >= 6 /\ SubSeq(d.s, 1, 6) = Str("data: "))
           THEN [kind |-> "other", line |-> d.s]
           ELSE LET p == SubSeq(d.s, 7, Len(d.s))
                    j == json_loads(p)
                IN  IF ~j.ok THEN [kind |-> "badjson", line |-> d.s, payload |-> p]
                    ELSE [kind |-> "event", line |-> d.s, payload |-> p,
                          value |-> j.val, text |-> PathValue(j.val, TextPath)]

LineInfo == [l \in StreamLines |-> LineInfoOf(l)]

\* a `data: ` line whose JSON payload is an object with a text value at the path
HasText(l) ==
  /\ LineInfo[l].kind = "event"
  /\ LineInfo[l].value.t = "dict"
  /\ LineInfo[l].text.has

\* ... and that value is a non-empty string
HasNonEmptyText(l) ==
  /\ HasText(l)
  /\ LineInfo[l].text.val.t = "str"
  /\ Len(LineInfo[l].text.val.v) > 0

\* the fragment f is the text value v: the characters of a string, the
\* digits of a number
IsFragmentOf(f, v) ==
  \/ v.t = "str" /\ f = v.v
  \/ v.t = "num" /\ f = PyStr(v)

(***************************************************************************)
(* C1 (as stated): for an event-stream response whose body is N `data: `   *)
(* lines, each a JSON object with a text value at                          *)
(* event.contentBlockDelta.delta.text, exactly N fragments are emitted, in *)
(* input order, the i-th equal to the i-th line's text value.  Fails: a    *)
(* line whose text is "" yields no fragment.                               *)
(***************************************************************************)
C1_AsStated ==
  (StreamRun /\ pc = "exit" /\ \A i \in 1..Len(Body) : HasText(Body[i]))
    => /\ Len(Fragments) = Len(Body)
       /\ \A i \in 1..Len(Body) : IsFragmentOf(Fragments[i], LineInfo[Body[i]].text.val)

(***************************************************************************)
(* C1 (amended): for an event-stream response whose body is N `data: `     *)
(* lines, each a JSON object with a non-empty string as its text value,    *)
(* no decode error is raised, the fragments emitted after i lines are read *)
(* are the text values of those i lines in order, and all N lines are read *)
(* when the call returns.                                                  *)
(***************************************************************************)
C1_Fragments ==
  (StreamRun /\ \A i \in 1..Len(Body) : HasNonEmptyText(Body[i]))
    => /\ err \in {"none", "TransportError"}
       /\ Len(Fragments) = pos
       /\ \A i \in 1..pos : IsFragmentOf(Fragments[i], LineInfo[Body[i]].text.val)
       /\ (pc \in {"L74", "exit"} => pos = Len(Body))

C1_Witness ==
  /\ StreamRun
  /\ pc = "exit"
  /\ Body = <<LineHello, LineAccent>>
  /\ Fragments = <<Str("Hello"), <<233, 33>>>>

JsonRun ==
  /\ pc \in {"L67", "L74", "exit", "raised"}
  /\ response # NoResponse
  /\ ContentTypeOr(response, "") = "application/json"

\* the body decoded and parsed in one step
WholeText == Utf8Decode(Concat(Body))
WholeJson == IF WholeText.ok THEN json_loads(WholeText.s) ELSE JFail

\* the values printed by line 69
JsonPrinted ==
  LET f == SelectSeq(stdout, LAMBDA e : e.site = "L69")
  IN  [i \in 1..Len(f) |-> f[i].arg]

(***************************************************************************)
(* C2 (as stated): for a response whose contentType is the JSON marker and *)
(* whose chunks concatenate to valid UTF-8 JSON, decoding succeeds and     *)
(* yields the value of parsing the concatenation in one step, wherever the *)
(* chunk boundaries fall.  Fails in the code: each chunk is UTF-8-decoded  *)
(* on its own (line 68), so a boundary inside a multi-byte character       *)
(* raises UnicodeDecodeError.                                              *)
(***************************************************************************)
C2_BoundaryInvariance ==
  (JsonRun /\ WholeJson.ok)
    => /\ err \in {"none", "TransportError"}
       /\ (pc \in {"L74", "exit"} => JsonPrinted = <<WholeJson.val>>)

RECURSIVE RawTranscript(_)
RawTranscript(b) ==
  IF b = <<>> THEN <<>>
  ELSE (IF LineInfo[Head(b)].kind \in {"other", "badjson", "event"}
        THEN <<LineInfo[Head(b)].line>> ELSE <<>>) \o RawTranscript(Tail(b))

(***************************************************************************)
(* C3 (as stated): after an event-stream response is exhausted the         *)
(* transcript holds every non-empty line in arrival order, lines without   *)
(* the `data: ` prefix verbatim and `data: ` lines as their raw line.      *)
(* Fails: line 61 is inside the `data: ` branch and appends the stripped   *)
(* line.                                                                   *)
(***************************************************************************)
C3_AsStated ==
  (StreamRun /\ pc \in {"L74", "exit"}) => content = RawTranscript(Body)

RECURSIVE PayloadTranscript(_)
PayloadTranscript(b) ==
  IF b = <<>> THEN <<>>
  ELSE (IF LineInfo[Head(b)].kind \in {"badjson", "event"}
        THEN <<LineInfo[Head(b)].payload>> ELSE <<>>) \o PayloadTranscript(Tail(b))

TranscriptPrinted ==
  LET f == SelectSeq(stdout, LAMBDA e : e.site = "L62")
  IN  [i \in 1..Len(f) |-> f[i].text]

(***************************************************************************)
(* C3 (amended): after an event-stream response is exhausted the           *)
(* transcript holds, in arrival order, one entry per `data: ` line, that   *)
(* line with its `data: ` prefix stripped, and nothing for the lines       *)
(* without the prefix; line 62 prints these entries joined by newlines.    *)
(***************************************************************************)
C3_Transcript ==
  (StreamRun /\ pc \in {"L74", "exit"})
    => /\ content = PayloadTranscript(Body)
       /\ TranscriptPrinted = <<Join(<<10>>, PayloadTranscript(Body))>>

C3_Witness ==
  /\ StreamRun
  /\ pc = "exit"
  /\ Body = <<LineComment, LineEmptyEvent>>
  /\ content = <<Str("{\"event\":{}}")>>

(***************************************************************************)
(* C4: reading a `data: ` line whose stripped payload is not valid JSON    *)
(* (the line `data: ` with an empty payload included) raises               *)
(* JSONDecodeError out of invoke_agent_runtime: nothing is returned,       *)
(* nothing is written to the sink for that line, and what was written for  *)
(* the earlier lines stays as it was.                                      *)
(***************************************************************************)
C4_DecodeError ==
  [][(pc = "L44" /\ pos' = pos + 1 /\ LineInfo[Body[pos + 1]].kind = "badjson")
       => /\ err' = "JSONDecodeError"
          /\ pc' = "raised"
          /\ stdout' = stdout
          /\ ret' = NoResponse]_vars

C4_Witness ==
  /\ StreamRun
  /\ pc = "raised"
  /\ err = "JSONDecodeError"
  /\ Body = <<LineHello, LineEmptyPayload>>
  /\ pos = 2
  /\ Fragments = <<Str("Hello")>>

LacksKey(l) == LineInfo[l].kind = "event" /\ ~LineInfo[l].text.has

(***************************************************************************)
(* C5 (as stated): a `data: ` line whose JSON payload lacks a key along    *)
(* event -> contentBlockDelta -> delta -> text yields no fragment, raises  *)
(* no error, and the loop goes on to the next line.  Fails in the code     *)
(* when a value on the way is truthy and not an object: .get raises        *)
(* AttributeError (the bug of C6).                                         *)
(***************************************************************************)
C5_MissingKeys ==
  StreamRun
    => /\ Len(Fragments) <= Cardinality({i \in 1..pos : ~LacksKey(Body[i])})
       /\ (pos >= 1 /\ LacksKey(Body[pos])) => err \in {"none", "TransportError"}

(***************************************************************************)
(* C6 (as stated): decoding a UTF-8 line of the stream fails only when the *)
(* line starts with `data: ` and its remainder is not valid JSON; a JSON   *)
(* remainder of any shape and a line without the prefix raise nothing.     *)
(* Fails in the code: `data: {"event":"x"}` raises AttributeError at       *)
(* line 53.                                                                *)
(***************************************************************************)
C6_OnlyBadJsonFails ==
  (StreamRun /\ pos >= 1 /\ LineInfo[Body[pos]].kind \in {"blank", "other", "event"})
    => err \in {"none", "TransportError"}

DeclaredType == ContentTypeOr(response, "missing")

OpaqueRun ==
  /\ pc \in {"L73", "L74", "exit", "raised"}
  /\ response # NoResponse
  /\ DeclaredType \notin StreamTypes \cup {"application/json"}

Received ==
  LET f == SelectSeq(stdout, LAMBDA e : e.site = "L40") IN f[1].arg

(***************************************************************************)
(* C7: the decoding is chosen from the contentType alone: line decoding    *)
(* exactly when it contains the event-stream marker, else whole-body JSON  *)
(* decoding exactly when it is "application/json", else (a missing         *)
(* contentType and a JSON marker with parameters included) nothing is read *)
(* from the body and the response is returned as it was received.          *)
(***************************************************************************)
C7_Dispatch ==
  /\ [][pc = "L42"
          => /\ (pc' = "L44") <=> (DeclaredType \in StreamTypes)
             /\ (pc' = "L67") <=> (DeclaredType = "application/json")
             /\ (pc' = "L73") <=> (DeclaredType \notin StreamTypes \cup {"application/json"})]_vars
  /\ [](OpaqueRun
          => /\ pos = 0
             /\ err = "none"
             /\ \A i \in 1..Len(stdout) : stdout[i].site \notin {"L59", "L62", "L69"}
             /\ response = Received
             /\ (pc = "exit" => ret = Received))

C7_Witness ==
  /\ OpaqueRun
  /\ pc = "exit"
  /\ DeclaredType = "application/json; charset=utf-8"
  /\ ret = Received
  /\ pos = 0

TerminalStatuses == {"READY", "CREATE_FAILED", "DELETE_FAILED", "UPDATE_FAILED"}

\* the statuses fetched so far, in order
Fetched ==
  LET f == SelectSeq(wtrace, LAMBDA e : e.op = "status")
  IN  [i \in 1..Len(f) |-> f[i].result]

NumSleeps == Len(SelectSeq(wtrace, LAMBDA e : e.op = "sleep"))

(***************************************************************************)
(* C8: when the first terminal status (READY, CREATE_FAILED, DELETE_FAILED *)
(* or UPDATE_FAILED) is the k-th one fetched, wait_for_status makes        *)
(* exactly k fetches and k-1 sleeps of 10, one sleep between consecutive   *)
(* fetches and none before the first or after the last.                    *)
(***************************************************************************)
C8_FetchesAndWaits ==
  /\ \A i \in 1..Len(wtrace) :
       IF i % 2 = 1 THEN wtrace[i].op = "status"
       ELSE wtrace[i] = [op |-> "sleep", secs |-> 10]
  /\ \A i \in 1..(Len(Fetched) - 1) : Fetched[i] \notin TerminalStatuses
  /\ wpc \in {"L45", "returned"}
       => /\ Len(Fetched) >= 1
          /\ Fetched[Len(Fetched)] \in TerminalStatuses
          /\ NumSleeps = Len(Fetched) - 1
          /\ Len(wtrace) = 2 * Len(Fetched) - 1
  /\ (Len(Fetched) >= 1 /\ Fetched[Len(Fetched)] \in TerminalStatuses)
       => wpc \in {"L40", "L45", "returned"}

C8_Witness ==
  /\ wpc = "returned"
  /\ Fetched = <<"CREATING", "CREATING", "READY">>
  /\ NumSleeps = 2

(***************************************************************************)
(* C9 (as stated): wait_for_status returns the terminal status that ended  *)
(* the polling.  Fails in the code: the function has no return statement   *)
(* and returns None.                                                       *)
(***************************************************************************)
C9_ReturnsTerminal ==
  wpc = "returned" => (wret \in TerminalStatuses /\ wret = Fetched[Len(Fetched)])

(***************************************************************************)
(* C10: with an empty listing the workflow never calls the invocation      *)
(* capability; with a non-empty listing it calls it once, with the first   *)
(* listed identity, and never with an identity that is not listed.         *)
(***************************************************************************)
C10_FirstOrNone ==
  /\ Len(calls) <= 1
  /\ \A i \in 1..Len(calls) :
       /\ Len(runtimes) >= 1
       /\ calls[i].agentRuntimeArn = runtimes[1].agentRuntimeArn
  /\ (pc \notin {"L83", "L84", "L35"} /\ Len(runtimes) >= 1) => Len(calls) = 1

C10_Witness ==
  /\ pc = "exit"
  /\ runtimes = <<>>
  /\ calls = <<>>

\* what get_agent_runtimes prints while listing
ListingSites == {"L23", "L25", "L26", "L27"}

\* something other than the listing was reported, or the script ended in error
Signalled ==
  \/ err # "none"
  \/ \E i \in 1..Len(stdout) : stdout[i].site \notin ListingSites

(***************************************************************************)
(* C11 (as stated): when the listing returns no identity, the script       *)
(* signals it (an error, or a report that no agent identity is available), *)
(* so that the outcome differs from a run that invoked an agent and got    *)
(* nothing back.  Fails in the code: line 84 skips the call and the script *)
(* ends normally, having printed only the rule of line 23.                 *)
(***************************************************************************)
C11_EmptySignalled ==
  (pc = "exit" /\ runtimes = <<>>) => Signalled

\* the line gives rise to a fragment: its text value is a non-empty string or
\* a number other than 0
Emits(l) ==
  /\ HasText(l)
  /\ \/ LineInfo[l].text.val.t = "str" /\ Len(LineInfo[l].text.val.v) > 0
     \/ LineInfo[l].text.val.t = "num" /\ LineInfo[l].text.val.v # 0

(***************************************************************************)
(* C13: in event-stream decoding the fragments are emitted in the order of *)
(* their lines, one line at a time: the step that reads line i+1 leaves    *)
(* the fragments emitted so far in place and adds at most the fragment of  *)
(* line i+1 after them, no other step emits a fragment, and between two    *)
(* reads every line read so far that gives a fragment has had it emitted   *)
(* (nothing is held back for a later line or for the end of the stream).   *)
(***************************************************************************)
C13_InOrder ==
  /\ [][IF pc = "L44" /\ pos' = pos + 1
        THEN \/ Fragments' = Fragments
             \/ /\ Emits(Body[pos + 1])
                /\ Len(Fragments') = Len(Fragments) + 1
                /\ SubSeq(Fragments', 1, Len(Fragments)) = Fragments
                /\ IsFragmentOf(Fragments'[Len(Fragments')],
                                LineInfo[Body[pos + 1]].text.val)
        ELSE Fragments' = Fragments]_vars
  /\ [](StreamRun
          => Len(Fragments) = Cardinality({i \in 1..pos : Emits(Body[i])}))

C13_Witness ==
  /\ StreamRun
  /\ pc = "L44"
  /\ Body = <<LineAccent, LineHello>>
  /\ pos = 1
  /\ Fragments = <<<<233, 33>>>>

\* the call has raised: the exception left invoke_agent_runtime and __main__
Raised == pc = "raised"

(***************************************************************************)
(* C15: one call of invoke_agent_runtime submits exactly one request, with *)
(* qualifier DEFAULT and the identity and payload it was given, and reads  *)
(* each line or chunk of the body at most once, front to back.  When the   *)
(* invocation, a read of the body or the decoding fails, the exception     *)
(* leaves the function: nothing is returned, nothing runs afterwards (no   *)
(* second request, no further read) and the error is kept as it was        *)
(* raised.                                                                 *)
(***************************************************************************)
C15_OneRequest ==
  /\ [](/\ Len(calls) <= 1
        /\ \A i \in 1..Len(calls) :
             calls[i] = [agentRuntimeArn |-> agent_arn, qualifier |-> "DEFAULT",
                         payload |-> payload]
        /\ (pc \in {"L42", "L44", "L67", "L73", "L74", "raised"} \/ ret # NoResponse)
             => Len(calls) = 1
        /\ response # NoResponse => pos <= Len(Body)
        /\ (err # "none") <=> Raised
        /\ Raised => ret = NoResponse
        /\ ret # NoResponse => (err = "none" /\ ret = response))
  /\ [][/\ ~Raised
        /\ pos' \in {pos, pos + 1}
        /\ Len(calls') \in {Len(calls), Len(calls) + 1}
        /\ (pc = "L35" /\ response' = NoResponse) => err' = "ClientError"
        /\ (pc \in {"L44", "L67"} /\ pos' = pos /\ pos < Len(Body))
             => err' = "TransportError"]_vars

C15_Witness ==
  /\ Raised
  /\ err = "TransportError"
  /\ Len(calls) = 1
  /\ calls[1].qualifier = "DEFAULT"
  /\ pos = 1
  /\ ret = NoResponse

(***************************************************************************)
(* C12 (as stated): the deploy script configures the runtime, then         *)
(* launches it, then monitors the deployment: after the launch the status  *)
(* is fetched until a terminal one is returned.  Fails in the code:        *)
(* deploy_agentcore ends after launch() and nothing calls wait_for_status. *)
(***************************************************************************)
C12_Monitors ==
  dpc = "exit"
    => /\ Len(dtrace) >= 3
       /\ dtrace[1].op = "configure"
       /\ dtrace[2].op = "launch"
       /\ \A i \in 3..Len(dtrace) : dtrace[i].op \in {"status", "sleep"}
       /\ dtrace[Len(dtrace)].op = "status"
       /\ dtrace[Len(dtrace)].result \in TerminalStatuses

\* some fetch so far returned a terminal status
TerminalFetched == \E i \in 1..Len(Fetched) : Fetched[i] \in TerminalStatuses

(***************************************************************************)
(* C14: wait_for_status returns only after a fetch returned READY,         *)
(* CREATE_FAILED, DELETE_FAILED or UPDATE_FAILED, and once a fetch has     *)
(* returned one of them it eventually returns; as long as every fetch      *)
(* returned some other status it stays in its loop and, whatever the       *)
(* number n of fetches made so far, makes fetch n+1: there is no attempt   *)
(* count or timeout after which it gives up.                               *)
(***************************************************************************)
C14_TerminatesIff ==
  /\ [](wpc = "returned" => TerminalFetched)
  /\ [](~TerminalFetched => wpc \in {"L37", "L40", "L41", "L42"})
  /\ (TerminalFetched ~> wpc = "returned")
  /\ \A n \in 0..(MaxFetches - 1) :
       (Len(Fetched) = n /\ ~TerminalFetched) ~> (Len(Fetched) = n + 1)

C14_Witness ==
  /\ wpc = "returned"
  /\ Fetched = <<"DELETING", "UPDATING", "CREATING", "UPDATE_FAILED">>

\* the prompts shown so far, in order
Prompted == SelectSeq(ctrace, LAMBDA e : e.op = "input")

\* the answer, lowercased, is 'y'
SaysYes(a) == a \in {Str("y"), Str("Y")}

(***************************************************************************)
(* C16: delete_agent_runtimes prompts for the listed runtimes one by one   *)
(* in listing order, each exactly once, and has prompted for all of them   *)
(* when it ends; delete_agent_runtime is called exactly for the runtimes   *)
(* whose answer lowercased is 'y', once, with the id of the runtime just   *)
(* prompted for, before the next prompt; a deletion that raises does not   *)
(* end the loop.                                                           *)
(***************************************************************************)
C16_PromptAndDelete ==
  /\ Len(Prompted) <= Len(cruntimes)
  /\ \A k \in 1..Len(Prompted) : Prompted[k].shown = cruntimes[k].agentRuntimeId
  /\ cpc = "exit" => Len(Prompted) = Len(cruntimes)
  /\ \A j \in 1..Len(ctrace) :
       /\ ctrace[j].op = "delete"
            => /\ j > 1
               /\ ctrace[j - 1].op = "input"
               /\ SaysYes(ctrace[j - 1].answer)
               /\ ctrace[j - 1].shown = ctrace[j].agentRuntimeId
       /\ (ctrace[j].op = "input" /\ SaysYes(ctrace[j].answer))
            => IF j = Len(ctrace) THEN cpc = "L33"
               ELSE /\ ctrace[j + 1].op = "delete"
                    /\ ctrace[j + 1].agentRuntimeId = ctrace[j].shown
       /\ (ctrace[j].op = "input" /\ j = Len(ctrace) /\ ~SaysYes(ctrace[j].answer))
            => cpc # "L33"

C16_Witness ==
  /\ cpc = "exit"
  /\ ctrace = <<[op |-> "input", shown |-> "id-b", answer |-> Str("Y")],
                [op |-> "delete", agentRuntimeId |-> "id-b", raised |-> TRUE],
                [op |-> "input", shown |-> "id-a", answer |-> Str("yes")]>>
====
